---- MODULE Spec2Model ----
(***************************************************************************)
(* Model of the MCP REST API client (src/app.py) and the MCP command-line  *)
(* client (src/cli.py): chunk classification, fragment extraction,         *)
(* aggregation, fence stripping, and the chat loops around them.           *)
(*                                                                         *)
(* A Python str is a sequence of one-character strings; a Python list is a *)
(* sequence; a message content is tagged with its Python type because both *)
(* would otherwise be sequences.                                           *)
(***************************************************************************)
EXTENDS Integers, Sequences, FiniteSets, TLC

VARIABLES
    \* ---- remove_json_wrappers applied repeatedly (src/app.py:80-84) ----
    unwrapped,            \* <<s, f(s), f(f(s)), ...>>: the input and the successive results
    \* ---- one chunk given to the REST and to the CLI chunk processing ----
    ex_chunk,             \* the chunk
    ex_rest,              \* what the REST streaming loop body yields for it
    ex_cli,               \* what the CLI's process_chunk writes for it
    \* ---- POST /chat requests (src/app.py:49-78) ----
    pc,                   \* position of handle_chat
    body,                 \* the request body (input_message)
    agent_executor_rest,  \* "unset", or how create_agent_executor("rest") ended
    astream,              \* chunks the agent executor has produced so far
    collected_responses,  \* query_response_without_streaming's list
    yielded,              \* what query_response_with_streaming has yielded so far
    caught,               \* what raised the exception caught inside query_response_*
    response,             \* value returned by query_response_without_streaming
    reply,                \* the HTTP reply: [status, json, content]
    \* ---- the command-line client (src/cli.py) ----
    cli_pc,               \* position of interactive_mode / handle_chat_mode
    user_message,         \* last line read by handle_chat_mode
    chat_history,         \* handle_chat_mode's chat_history
    is_last_step,         \* handle_chat_mode's is_last_step
    input_messages,       \* the dict passed to the executor; messages aliases chat_history
    cli_astream,          \* chunks the executor has produced in the current turn
    outcome               \* how the last iteration of the chat loop ended

fence_vars == <<unwrapped>>
extract_vars == <<ex_chunk, ex_rest, ex_cli>>
rest_vars == <<pc, body, agent_executor_rest, astream, collected_responses, yielded,
               caught, response, reply>>
cli_vars == <<cli_pc, user_message, chat_history, is_last_step, input_messages,
              cli_astream, outcome>>
vars == <<fence_vars, extract_vars, rest_vars, cli_vars>>

----------------------------------------------------------------------------
(* Python str operations *)

NL == "\n"

Min(S) == CHOOSE x \in S : \A y \in S : x <= y
Max(S) == CHOOSE x \in S : \A y \in S : x >= y

\* str.startswith / str.endswith
startswith(s, p) == Len(s) >= Len(p) /\ SubSeq(s, 1, Len(p)) = p
endswith(s, p) == Len(s) >= Len(p) /\ SubSeq(s, Len(s) - Len(p) + 1, Len(s)) = p

\* p in s, for two strings: the substring test
contains(s, p) == \E i \in 0..(Len(s) - Len(p)) : SubSeq(s, i + 1, i + Len(p)) = p

isspace(c) == c \in {" ", NL}

\* str.strip(): drop leading and trailing whitespace
strip(s) ==
    LET keep == {i \in 1..Len(s) : ~isspace(s[i])}
    IN  IF keep = {} THEN <<>> ELSE SubSeq(s, Min(keep), Max(keep))

\* s.replace("\n", "")
RECURSIVE replace_newlines(_)
replace_newlines(s) ==
    IF s = <<>> THEN <<>>
    ELSE IF Head(s) = NL THEN replace_newlines(Tail(s))
    ELSE <<Head(s)>> \o replace_newlines(Tail(s))

\* "".join(list)
RECURSIVE join(_)
join(l) == IF l = <<>> THEN <<>> ELSE Head(l) \o join(Tail(l))

----------------------------------------------------------------------------
(* Fence stripping, src/app.py:80-89 *)

\* the grave accent character U+0060, which a string literal here cannot hold
Backtick == "grave"

\* the opening marker (three grave accents and json) and the closing fence
FenceOpen == <<Backtick, Backtick, Backtick, "j", "s", "o", "n">>
FenceClose == <<Backtick, Backtick, Backtick>>

\* a plausible slip: the closing fence is not checked
remove_json_wrappers_open_only(input_string) ==
    IF startswith(input_string, FenceOpen)
    THEN strip(SubSeq(input_string, 8, Len(input_string) - 3))
    ELSE input_string

\* input_string[7:-3].strip() when fenced, else input_string
remove_json_wrappers(input_string) ==
    IF startswith(input_string, FenceOpen) /\ endswith(input_string, FenceClose)
    THEN strip(SubSeq(input_string, 8, Len(input_string) - 3))
    ELSE input_string

\* mcp_client.base.is_json is not among the sources; the documents the model's
\* alphabet can spell that json.loads accepts
JsonDocuments == {<<"{", "}">>, <<"1">>}

is_json(s) == strip(s) \in JsonDocuments

\* json.loads(response_content) if is_json(response_content) else response_content;
\* json |-> TRUE stands for the parsed structure of content
_process_json_response(response_content) ==
    LET stripped == remove_json_wrappers(response_content)
    IN  [json |-> is_json(stripped), content |-> stripped]

----------------------------------------------------------------------------
(* Messages and chunks produced by the agent executor *)

Str(s) == [kind |-> "str", text |-> s, parts |-> <<>>]
List(l) == [kind |-> "list", text |-> <<>>, parts |-> l]

\* one element of a list content: a mapping (with or without a "text" key) or a str
DictPart(has_text, t) == [kind |-> "dict", has_text |-> has_text, text |-> t]
StrPart(t) == [kind |-> "str", has_text |-> FALSE, text |-> t]

Message(type, content, tool_calls) ==
    [type |-> type, content |-> content, tool_calls |-> tool_calls]

\* ("messages", (msg, metadata)): msg is chunk[1][0]
MessagesChunk(msg) ==
    [shape |-> "tuple", tag |-> "messages", has_messages |-> FALSE, msg |-> msg]
\* ("values", {"messages": [..., msg]}): msg is chunk[1]['messages'][-1]
ValuesChunk(msg) ==
    [shape |-> "tuple", tag |-> "values", has_messages |-> TRUE, msg |-> msg]
\* a bare mapping; msg is chunk["messages"][-1] when the key is present
DictChunk(has_messages, msg) ==
    [shape |-> "dict", tag |-> "none", has_messages |-> has_messages, msg |-> msg]
\* a tuple with another tag
OtherChunk == [shape |-> "tuple", tag |-> "updates", has_messages |-> FALSE,
               msg |-> Message("ToolMessage", Str(<<>>), 0)]

\* isinstance(m, AIMessageChunk); AIMessageChunk is a subclass of AIMessage
IsAIMessageChunk(m) == m.type = "AIMessageChunk"
IsAIMessage(m) == m.type \in {"AIMessage", "AIMessageChunk"}

\* Python truthiness of a content: a non-empty str or a non-empty list
truthy(content) ==
    IF content.kind = "list" THEN content.parts # <<>> ELSE content.text # <<>>

TextKey == <<"t", "e", "x", "t">>

\* the value a function call produces: a str, or an exception
Return(v) == [raised |-> FALSE, value |-> v]
Raise == [raised |-> TRUE, value |-> <<>>]

----------------------------------------------------------------------------
(* REST extraction, src/app.py:156-171 and the loop bodies at 106-117, 135-144 *)

\* app.py process_message_chunk: the content of an AIMessageChunk delta, else ""
rest_process_message_chunk(message_chunk) ==
    IF /\ message_chunk.shape = "tuple" /\ message_chunk.tag = "messages"
       /\ IsAIMessageChunk(message_chunk.msg)
    THEN message_chunk.msg.content
    ELSE Str(<<>>)

\* a slip that returns "" for a part without looking at its "text" key
_process_message_chunk_no_text(content) ==
    IF content.kind = "dict" THEN Return(<<>>)
    ELSE IF contains(content.text, TextKey) THEN Raise
    ELSE Return(content.text)

\* app.py _process_message_chunk, given a str content or one part of a list content.
\* 'text' in content is a key test on a mapping and a substring test on a str;
\* content['text'] on a str raises TypeError
_process_message_chunk(content) ==
    IF content.kind = "dict"
    THEN IF content.has_text THEN Return(content.text) ELSE Return(<<>>)
    ELSE IF contains(content.text, TextKey) THEN Raise
    ELSE Return(content.text)

\* the fragments the loop body hands on for one content, up to the first exception:
\* for item in content: _process_message_chunk(item), or the single message
RECURSIVE items_until_raise(_)
items_until_raise(parts) ==
    IF parts = <<>> THEN [out |-> <<>>, raised |-> FALSE]
    ELSE LET r == _process_message_chunk(Head(parts))
         IN  IF r.raised THEN [out |-> <<>>, raised |-> TRUE]
             ELSE LET rest == items_until_raise(Tail(parts))
                  IN  [out |-> <<r.value>> \o rest.out, raised |-> rest.raised]

\* content = process_message_chunk(chunk); if content: ...
stream_fragments(chunk) ==
    LET content == rest_process_message_chunk(chunk)
    IN  IF ~truthy(content) THEN [out |-> <<>>, raised |-> FALSE]
        ELSE IF content.kind = "list" THEN items_until_raise(content.parts)
        ELSE items_until_raise(<<[kind |-> "str", has_text |-> FALSE,
                                  text |-> content.text]>>)

----------------------------------------------------------------------------
(* CLI chunk processing, src/cli.py:86-160 *)

\* the text message.pretty_print() writes for a message with tool calls
ToolTrace == <<"T", NL>>

\* print(text, end=...)
print_(text, end) == text \o end

\* ''.join(item['text'] for item in content if 'text' in item)
RECURSIVE extracted_text(_)
extracted_text(parts) ==
    IF parts = <<>> THEN Return(<<>>)
    ELSE LET item == Head(parts)
             rest == extracted_text(Tail(parts))
         IN  IF item.kind = "dict"
             THEN IF rest.raised THEN Raise
                  ELSE Return((IF item.has_text THEN item.text ELSE <<>>) \o rest.value)
             ELSE IF contains(item.text, TextKey) THEN Raise
             ELSE rest

\* cli.py process_message_chunk: what it writes
cli_process_message_chunk(message_chunk) ==
    IF IsAIMessageChunk(message_chunk)
    THEN IF message_chunk.content.kind = "list"
         THEN LET t == extracted_text(message_chunk.content.parts)
              IN  IF t.raised THEN Raise ELSE Return(print_(t.value, <<>>))
         ELSE Return(print_(message_chunk.content.text, <<>>))
    ELSE Return(<<>>)

\* cli.py process_final_value_chunk: print("\n", flush=True)
process_final_value_chunk == Return(print_(<<NL>>, <<NL>>))

\* cli.py process_tool_calls
process_tool_calls(message) ==
    IF IsAIMessage(message) /\ message.tool_calls > 0
    THEN Return(ToolTrace)
    ELSE Return(<<>>)

\* cli.py process_chunk: what is written for one chunk
process_chunk(chunk) ==
    IF chunk.shape = "tuple" /\ chunk.tag = "messages"
    THEN cli_process_message_chunk(chunk.msg)
    ELSE IF chunk.shape = "dict" /\ chunk.has_messages
    THEN process_final_value_chunk
    ELSE IF chunk.shape = "tuple" /\ chunk.tag = "values"
    THEN process_tool_calls(chunk.msg)
    ELSE Return(<<>>)

----------------------------------------------------------------------------
(* Initial values of the four parts of the state *)

NotRun == [done |-> FALSE, out |-> <<>>, raised |-> FALSE]
NoReply == [status |-> 0, json |-> FALSE, content |-> <<>>]
NoBody == [has_message |-> FALSE, message |-> <<>>, streaming |-> "absent"]
NoInput == [messages |-> <<>>, is_last_step |-> FALSE]

FenceIdle == unwrapped = <<>>

ExtractIdle ==
    /\ ex_chunk = OtherChunk
    /\ ex_rest = NotRun
    /\ ex_cli = NotRun

\* no request received yet
RestInit ==
    /\ pc = "idle"
    /\ body = NoBody
    /\ agent_executor_rest = "unset"
    /\ astream = <<>>
    /\ collected_responses = <<>>
    /\ yielded = <<>>
    /\ caught = "none"
    /\ response = <<>>
    /\ reply = NoReply

\* interactive_mode has printed its banner and is about to read a command
CliInit ==
    /\ cli_pc = "command"
    /\ user_message = <<>>
    /\ chat_history = <<>>
    /\ is_last_step = FALSE
    /\ input_messages = NoInput
    /\ cli_astream = <<>>
    /\ outcome = "none"

----------------------------------------------------------------------------
(* Fence stripping as a function of its input *)

MaxPieces == 4
MaxStrips == 2

FencePieces == {FenceOpen, FenceClose, <<" ">>, <<NL>>, <<"{", "}">>, <<"x">>}

RECURSIVE PieceStrings(_)
PieceStrings(n) ==
    IF n = 0 THEN {<<>>}
    ELSE LET shorter == PieceStrings(n - 1)
         IN  shorter \cup {s \o p : s \in shorter, p \in FencePieces}

FenceInit ==
    /\ unwrapped \in {<<s>> : s \in PieceStrings(MaxPieces)}
    /\ ExtractIdle /\ RestInit /\ CliInit

\* response_content = remove_json_wrappers(response_content), once more
Unwrap ==
    /\ Len(unwrapped) <= MaxStrips
    /\ unwrapped' = Append(unwrapped, remove_json_wrappers(unwrapped[Len(unwrapped)]))
    /\ UNCHANGED <<extract_vars, rest_vars, cli_vars>>

FenceNext == Unwrap

SpecFence == FenceInit /\ [][FenceNext]_vars

----------------------------------------------------------------------------
(* Chunk processing as a function of one chunk *)

MaxStrLen == 4
MaxParts == 2

StrAlphabet == {"a", NL, "t", "e", "x"}

RECURSIVE Strings(_)
Strings(n) ==
    IF n = 0 THEN {<<>>}
    ELSE LET shorter == Strings(n - 1)
         IN  shorter \cup {Append(s, c) : s \in shorter, c \in StrAlphabet}

PartTexts == {<<>>, <<"a">>, <<"b", NL, "c">>}

ContentParts ==
    {DictPart(TRUE, t) : t \in PartTexts}
        \cup {DictPart(FALSE, <<>>), StrPart(<<"a">>), StrPart(TextKey)}

RECURSIVE PartLists(_)
PartLists(n) ==
    IF n = 0 THEN {<<>>}
    ELSE LET shorter == PartLists(n - 1)
         IN  shorter \cup {Append(l, q) : l \in shorter, q \in ContentParts}

Contents == {Str(s) : s \in Strings(MaxStrLen)} \cup {List(l) : l \in PartLists(MaxParts)}

FewContents == {Str(<<>>), Str(<<"a">>), List(<<DictPart(TRUE, <<"a">>)>>)}

ExtractChunks ==
    {MessagesChunk(Message("AIMessageChunk", c, 0)) : c \in Contents}
        \cup {MessagesChunk(Message("ToolMessage", c, 0)) : c \in FewContents}
        \cup {ValuesChunk(Message(t, c, n)) :
                t \in {"AIMessage", "ToolMessage"}, c \in FewContents, n \in 0..1}
        \cup {DictChunk(h, Message("AIMessage", c, 0)) : h \in BOOLEAN, c \in FewContents}
        \cup {OtherChunk}

ExtractInit ==
    /\ ex_chunk \in ExtractChunks
    /\ ex_rest = NotRun
    /\ ex_cli = NotRun
    /\ FenceIdle /\ RestInit /\ CliInit

\* the streaming loop given the aggregating loop's replace("\n", "")
with_streaming_body_replace(chunk) ==
    LET f == stream_fragments(chunk)
    IN  [out |-> [i \in 1..Len(f.out) |-> replace_newlines(f.out[i])],
         raised |-> f.raised]

\* the body of the streaming loop, app.py:106-117: the fragments yielded for a chunk
with_streaming_body(chunk) == stream_fragments(chunk)

\* the aggregating loop without its replace("\n", "")
without_streaming_body_keep(chunk) == stream_fragments(chunk)

\* the body of the aggregating loop, app.py:135-144: the fragments appended to
\* collected_responses for a chunk, each after replace("\n", "")
without_streaming_body(chunk) ==
    LET f == stream_fragments(chunk)
    IN  [out |-> [i \in 1..Len(f.out) |-> replace_newlines(f.out[i])],
         raised |-> f.raised]

ExtractRest ==
    /\ ~ex_rest.done
    /\ ex_rest' = [done |-> TRUE, out |-> with_streaming_body(ex_chunk).out,
                   raised |-> with_streaming_body(ex_chunk).raised]
    /\ UNCHANGED <<ex_chunk, ex_cli, fence_vars, rest_vars, cli_vars>>

ExtractCli ==
    /\ ~ex_cli.done
    /\ ex_cli' = [done |-> TRUE, out |-> process_chunk(ex_chunk).value,
                  raised |-> process_chunk(ex_chunk).raised]
    /\ UNCHANGED <<ex_chunk, ex_rest, fence_vars, rest_vars, cli_vars>>

ExtractNext == ExtractRest \/ ExtractCli

SpecExtract == ExtractInit /\ [][ExtractNext]_vars

----------------------------------------------------------------------------
(* POST /chat, src/app.py:49-78, 97-153 *)

MaxChunks == 2

\* request bodies: "message" absent, empty or given; "streaming" absent, false or true
Bodies ==
    {[has_message |-> h, message |-> m, streaming |-> st] :
        h \in BOOLEAN, m \in {<<>>, <<"h", "i">>}, st \in {"absent", "false", "true"}}
    \ {[has_message |-> FALSE, message |-> <<"h", "i">>, streaming |-> st] :
        st \in {"absent", "false", "true"}}

\* chunks the executor may produce in the request model
RestChunks ==
    { MessagesChunk(Message("AIMessageChunk", Str(<<"a", "b", NL, "c", "d">>), 0)),
      MessagesChunk(Message("AIMessageChunk", Str(<<"e", "f">>), 0)),
      MessagesChunk(Message("AIMessageChunk", Str(<<>>), 0)),
      MessagesChunk(Message("AIMessageChunk", Str(<<"a", " ">> \o TextKey), 0)),
      MessagesChunk(Message("AIMessageChunk",
          List(<<DictPart(TRUE, <<"g", NL>>), DictPart(FALSE, <<>>),
                 DictPart(TRUE, <<"h">>)>>), 0)),
      MessagesChunk(Message("AIMessageChunk",
          List(<<DictPart(TRUE, <<"i">>), StrPart(TextKey), DictPart(TRUE, <<"j">>)>>), 0)),
      MessagesChunk(Message("AIMessageChunk", Str(<<"{", "}">>), 0)),
      MessagesChunk(Message("ToolMessage", Str(<<"k">>), 0)),
      ValuesChunk(Message("AIMessage", Str(<<"l">>), 1)),
      DictChunk(TRUE, Message("AIMessage", Str(<<"m">>), 0)),
      OtherChunk }

\* input_message.get("message", "")
get_message(b) == IF b.has_message THEN b.message ELSE <<>>
\* input_message.get("streaming", False) is False
streaming_is_false(b) == b.streaming \in {"absent", "false"}

Reply(status, processed) ==
    [status |-> status, json |-> processed.json, content |-> processed.content]

\* HTTPException(status_code=..., detail=...), no body content
Error(status) == [status |-> status, json |-> FALSE, content |-> <<>>]

\* app.py:75-78: except Exception catches the HTTPException raised at line 57 as
\* well, and every exception leaves as a 500
chat_except(status) == Error(500)

\* a handler that hands back what was collected before the failure
without_streaming_except_partial(collected) == join(collected)

\* app.py:149-153: the exception is printed and "" is returned
without_streaming_except(collected) == <<>>

\* app.py:66-67 once query_response_without_streaming has returned
ReturnAggregate(r) ==
    /\ response' = r
    /\ reply' = Reply(200, _process_json_response(r))
    /\ pc' = "responded"

\* handle_chat up to its first chunk; created says whether create_agent_executor
\* returned or raised
HandleChat(b, created) ==
    /\ pc \in {"idle", "responded"}
    /\ body' = b
    /\ agent_executor_rest' = IF created THEN "created" ELSE "raised"
    /\ astream' = <<>>
    /\ collected_responses' = <<>>
    /\ yielded' = <<>>
    /\ caught' = "none"
    /\ response' = <<>>
    /\ IF ~created
       THEN reply' = chat_except(500) /\ pc' = "responded"
       ELSE IF get_message(b) = <<>>
       THEN reply' = chat_except(400) /\ pc' = "responded"
       ELSE IF streaming_is_false(b)
       THEN reply' = NoReply /\ pc' = "aggregating"
       ELSE reply' = Reply(200, [json |-> FALSE, content |-> <<>>]) /\ pc' = "streaming"
    /\ UNCHANGED <<fence_vars, extract_vars, cli_vars>>

\* one iteration of the loop of query_response_without_streaming
AggregateChunk(c) ==
    /\ pc = "aggregating"
    /\ Len(astream) < MaxChunks
    /\ astream' = Append(astream, c)
    /\ LET f == without_streaming_body(c)
       IN  /\ collected_responses' = collected_responses \o f.out
           /\ IF f.raised
              THEN /\ caught' = "extract"
                   /\ ReturnAggregate(without_streaming_except(collected_responses'))
              ELSE UNCHANGED <<caught, response, reply, pc>>
    /\ UNCHANGED <<body, agent_executor_rest, yielded, fence_vars, extract_vars, cli_vars>>

\* the executor's sequence ends: "".join(collected_responses)
AggregateEnd ==
    /\ pc = "aggregating"
    /\ ReturnAggregate(join(collected_responses))
    /\ UNCHANGED <<body, agent_executor_rest, astream, collected_responses, yielded, caught,
                   fence_vars, extract_vars, cli_vars>>

\* the executor raises instead of producing the next chunk
AggregateRaise ==
    /\ pc = "aggregating"
    /\ caught' = "astream"
    /\ ReturnAggregate(without_streaming_except(collected_responses))
    /\ UNCHANGED <<body, agent_executor_rest, astream, collected_responses, yielded,
                   fence_vars, extract_vars, cli_vars>>

\* one iteration of the loop of query_response_with_streaming, forwarded by
\* event_stream; on an exception the generator yields "" and ends
StreamChunk(c) ==
    /\ pc = "streaming"
    /\ Len(astream) < MaxChunks
    /\ astream' = Append(astream, c)
    /\ LET f == with_streaming_body(c)
       IN  IF f.raised
           THEN /\ yielded' = yielded \o f.out \o << <<>> >>
                /\ caught' = "extract"
                /\ pc' = "responded"
           ELSE /\ yielded' = yielded \o f.out
                /\ UNCHANGED <<caught, pc>>
    /\ UNCHANGED <<body, agent_executor_rest, collected_responses, response, reply,
                   fence_vars, extract_vars, cli_vars>>

StreamEnd ==
    /\ pc = "streaming"
    /\ pc' = "responded"
    /\ UNCHANGED <<body, agent_executor_rest, astream, collected_responses, yielded, caught,
                   response, reply, fence_vars, extract_vars, cli_vars>>

StreamRaise ==
    /\ pc = "streaming"
    /\ yielded' = Append(yielded, <<>>)
    /\ caught' = "astream"
    /\ pc' = "responded"
    /\ UNCHANGED <<body, agent_executor_rest, astream, collected_responses, response, reply,
                   fence_vars, extract_vars, cli_vars>>

Init == RestInit /\ FenceIdle /\ ExtractIdle /\ CliInit

Next ==
    \/ \E b \in Bodies, created \in BOOLEAN : HandleChat(b, created)
    \/ \E c \in RestChunks : AggregateChunk(c)
    \/ AggregateEnd
    \/ AggregateRaise
    \/ \E c \in RestChunks : StreamChunk(c)
    \/ StreamEnd
    \/ StreamRaise

Spec == Init /\ [][Next]_vars

----------------------------------------------------------------------------
(* The command-line client, src/cli.py:29-83 and 163-216 *)

MaxHistory == 3
MaxCliChunks == 2

\* lines typed at the ">>> " prompt, already stripped
Commands == {"", "list-tools", "chat", "quit", "exit", "clear", "help", "frobnicate"}

\* lines typed at the "You: " prompt
ChatLines ==
    { <<"e", "x", "i", "t">>, <<"Q", "u", "i", "t">>, <<"c", "l", "e", "a", "r">>,
      <<"C", "L", "S">>, <<" ", "h", "i", " ">>, <<"y", "o">> }

\* str.lower() on the letters the model's lines use
Lowercase == [Q |-> "q", C |-> "c", L |-> "l", S |-> "s"]
lower(s) == [i \in 1..Len(s) |-> IF s[i] \in DOMAIN Lowercase THEN Lowercase[s[i]] ELSE s[i]]

ExitWords == {<<"e", "x", "i", "t">>, <<"q", "u", "i", "t">>}
ClearWords == {<<"c", "l", "e", "a", "r">>, <<"c", "l", "s">>}

\* chunks the executor may produce in a chat turn
CliChunks ==
    { MessagesChunk(Message("AIMessageChunk", Str(<<"a">>), 0)),
      MessagesChunk(Message("AIMessageChunk", List(<<StrPart(TextKey)>>), 0)),
      ValuesChunk(Message("AIMessage", Str(<<"a">>), 1)),
      DictChunk(TRUE, Message("AIMessage", Str(<<"a">>), 0)),
      DictChunk(FALSE, Message("AIMessage", Str(<<"a">>), 0)) }

HumanMessage(content) == [role |-> "human", content |-> Str(content)]
AIMessage(content) == [role |-> "ai", content |-> content]

InChat == {"chat_input", "chat_stream"}

\* a handler that gives up on the first error: break
chat_mode_except_break == [pc |-> "command", outcome |-> "caught"]

\* cli.py:56-58: except Exception: print, continue
chat_mode_except == [pc |-> "chat_input", outcome |-> "caught"]

\* the chat loop after an exception of class Exception
CatchInChatMode ==
    /\ cli_pc' = chat_mode_except.pc
    /\ outcome' = chat_mode_except.outcome

\* interactive_mode reads a line and hands it to handle_command; ok says whether the
\* awaited call (list_tools, initialise_tools) returned or raised
InteractiveCommand(cmd, ok) ==
    /\ cli_pc = "command"
    /\ IF cmd = "chat" /\ ok
       THEN /\ cli_pc' = "chat_input"
            /\ chat_history' = <<>>
            /\ is_last_step' = FALSE
            /\ outcome' = "none"
       ELSE /\ cli_pc' = IF cmd \in {"quit", "exit"} THEN "exited" ELSE "command"
            /\ UNCHANGED <<chat_history, is_last_step, outcome>>
    /\ UNCHANGED <<user_message, input_messages, cli_astream,
                   fence_vars, extract_vars, rest_vars>>

\* input(">>> ") raises EOFError: break
InteractiveEOF ==
    /\ cli_pc = "command"
    /\ cli_pc' = "exited"
    /\ UNCHANGED <<user_message, chat_history, is_last_step, input_messages,
                   cli_astream, outcome, fence_vars, extract_vars, rest_vars>>

\* handle_chat_mode reads a line: exit/quit, clear/cls, or a message that starts a turn
ChatInput(line) ==
    /\ cli_pc = "chat_input"
    /\ user_message' = strip(line)
    /\ IF lower(user_message') \in ExitWords
       THEN /\ cli_pc' = "command"
            /\ outcome' = "exit"
            /\ UNCHANGED <<chat_history, is_last_step, input_messages, cli_astream>>
       ELSE IF lower(user_message') \in ClearWords
       THEN /\ chat_history' = <<>>
            /\ is_last_step' = TRUE
            /\ outcome' = "cleared"
            /\ UNCHANGED <<cli_pc, input_messages, cli_astream>>
       ELSE /\ Len(chat_history) < MaxHistory
            /\ chat_history' = Append(chat_history, HumanMessage(user_message'))
            /\ input_messages' = [messages |-> chat_history',
                                  is_last_step |-> is_last_step]
            /\ is_last_step' = FALSE
            /\ cli_astream' = <<>>
            /\ cli_pc' = "chat_stream"
            /\ outcome' = "running"
    /\ UNCHANGED <<fence_vars, extract_vars, rest_vars>>

\* input("\nYou: ") raises EOFError, an Exception
ChatInputRaise ==
    /\ cli_pc = "chat_input"
    /\ CatchInChatMode
    /\ UNCHANGED <<user_message, chat_history, is_last_step, input_messages,
                   cli_astream, fence_vars, extract_vars, rest_vars>>

\* one iteration of the loop of query_response: process_chunk, then the append to
\* input_messages["messages"], which is the list chat_history
CliChunk(c) ==
    /\ cli_pc = "chat_stream"
    /\ Len(cli_astream) < MaxCliChunks
    /\ cli_astream' = Append(cli_astream, c)
    /\ IF process_chunk(c).raised
       THEN /\ CatchInChatMode
            /\ UNCHANGED <<chat_history, input_messages>>
       ELSE /\ IF c.shape = "dict" /\ c.has_messages
               THEN /\ chat_history' = Append(chat_history, AIMessage(c.msg.content))
                    /\ input_messages' = [input_messages EXCEPT !.messages = chat_history']
               ELSE UNCHANGED <<chat_history, input_messages>>
            /\ UNCHANGED <<cli_pc, outcome>>
    /\ UNCHANGED <<user_message, is_last_step, fence_vars, extract_vars, rest_vars>>

\* the executor's sequence ends: print(""), and the loop prompts again
CliStreamEnd ==
    /\ cli_pc = "chat_stream"
    /\ cli_pc' = "chat_input"
    /\ outcome' = "completed"
    /\ UNCHANGED <<user_message, chat_history, is_last_step, input_messages,
                   cli_astream, fence_vars, extract_vars, rest_vars>>

\* the executor raises instead of producing the next chunk
CliStreamRaise ==
    /\ cli_pc = "chat_stream"
    /\ CatchInChatMode
    /\ UNCHANGED <<user_message, chat_history, is_last_step, input_messages,
                   cli_astream, fence_vars, extract_vars, rest_vars>>

\* KeyboardInterrupt in chat mode is no Exception: cli.py:56 does not catch it.
\* It reaches interactive_mode's handler at cli.py:176, which prompts for a command,
\* or, where asyncio.run turns the signal into a cancellation of the task, it ends
\* the program
ChatInterrupt ==
    /\ cli_pc \in InChat
    /\ cli_pc' \in {"command", "exited"}
    /\ outcome' = "interrupted"
    /\ UNCHANGED <<user_message, chat_history, is_last_step, input_messages,
                   cli_astream, fence_vars, extract_vars, rest_vars>>

CliNext ==
    \/ \E cmd \in Commands, ok \in BOOLEAN : InteractiveCommand(cmd, ok)
    \/ InteractiveEOF
    \/ \E line \in ChatLines : ChatInput(line)
    \/ ChatInputRaise
    \/ \E c \in CliChunks : CliChunk(c)
    \/ CliStreamEnd
    \/ CliStreamRaise
    \/ ChatInterrupt

CliSpecInit == CliInit /\ FenceIdle /\ ExtractIdle /\ RestInit

SpecCli == CliSpecInit /\ [][CliNext]_vars

----------------------------------------------------------------------------
(* What the claims say, stated without the operators that model the code *)

Front(q) == SubSeq(q, 1, Len(q) - 1)
IsPrefix(p, q) == Len(p) <= Len(q) /\ SubSeq(q, 1, Len(p)) = p
NonEmpty(q) == SelectSeq(q, LAMBDA t : t # <<>>)
WithoutNewlines(t) == SelectSeq(t, LAMBDA ch : ch # NL)

RECURSIVE Concat(_)
Concat(q) == IF q = <<>> THEN <<>> ELSE Concat(Front(q)) \o q[Len(q)]

IsDelta(c) == c.shape = "tuple" /\ c.tag = "messages" /\ c.msg.type = "AIMessageChunk"
IsEndOfTurn(c) == c.shape = "dict" /\ c.has_messages
\* the shapes the executor is said to produce: tagged "messages" or "values", or a
\* bare mapping with the key "messages"
IsContractChunk(c) ==
    \/ c.shape = "tuple" /\ c.tag \in {"messages", "values"}
    \/ IsEndOfTurn(c)
AllDicts(parts) == \A i \in 1..Len(parts) : parts[i].kind = "dict"

\* the fragment of one content part: the "text" field of a mapping that has one,
\* a str part itself, nothing otherwise
PartFragment(q) == IF q.kind = "str" \/ q.has_text THEN q.text ELSE <<>>

\* the fragments of one chunk: those of a message delta, none for any other chunk
ChunkFragments(c) ==
    IF ~IsDelta(c) THEN <<>>
    ELSE IF c.msg.content.kind = "str" THEN <<c.msg.content.text>>
    ELSE [i \in 1..Len(c.msg.content.parts) |-> PartFragment(c.msg.content.parts[i])]

\* the fragments of a chunk sequence, in emission order
Fragments(chunks) == Concat([i \in 1..Len(chunks) |-> ChunkFragments(chunks[i])])

Aggregated == agent_executor_rest = "created" /\ get_message(body) # <<>> /\ body.streaming # "true"
Streamed == agent_executor_rest = "created" /\ get_message(body) # <<>> /\ body.streaming = "true"

----------------------------------------------------------------------------
(* The claims *)

\* C1: a POST /chat request without a message (absent or empty), streaming or not,
\* is answered with status 400, and no agent executor is created for it (a request
\* that failed because create_agent_executor itself raised is left aside).
C1_MissingMessageIs400 ==
    (pc = "responded" /\ get_message(body) = <<>> /\ agent_executor_rest # "raised")
        => (reply.status = 400 /\ agent_executor_rest = "unset")

\* C2: for a "messages" chunk whose first payload element is an assistant delta with
\* a non-empty plain-string content s, the REST extraction yields exactly s and
\* raises nothing.
C2_StringContentIsItsOwnFragment ==
    (ex_rest.done /\ IsDelta(ex_chunk) /\ ex_chunk.msg.content.kind = "str"
        /\ ex_chunk.msg.content.text # <<>>)
        => (~ex_rest.raised /\ ex_rest.out = <<ex_chunk.msg.content.text>>)

\* C3: for a "messages" delta whose content is a sequence of content-part mappings,
\* both the CLI and the REST path emit the concatenation, in order, of the "text"
\* fields of the parts that have one; the other parts add nothing, nothing raises,
\* and the empty sequence gives the empty text.
C3_TextOfPartsInOrder ==
    (IsDelta(ex_chunk) /\ ex_chunk.msg.content.kind = "list"
        /\ AllDicts(ex_chunk.msg.content.parts))
        => LET parts == ex_chunk.msg.content.parts
               withText == SelectSeq(parts, LAMBDA q : q.has_text)
               text == Concat([i \in 1..Len(withText) |-> withText[i].text])
           IN  /\ ex_rest.done => (~ex_rest.raised /\ Concat(ex_rest.out) = text)
               /\ ex_cli.done => (~ex_cli.raised /\ ex_cli.out = text)

C3_Witness ==
    /\ ex_rest.done /\ ex_cli.done
    /\ IsDelta(ex_chunk) /\ ex_chunk.msg.content.kind = "list"
    /\ ex_chunk.msg.content.parts = <<DictPart(FALSE, <<>>), DictPart(TRUE, <<"b", NL, "c">>)>>
    /\ ex_cli.out = <<"b", NL, "c">>

\* C4: when the chunk sequence is consumed without error, the aggregated response is
\* the concatenation, in emission order and without separator, of the fragments with
\* every newline removed; chunks that are no message deltas add nothing.
C4_AggregateIsFragmentsWithoutNewlines ==
    (pc = "responded" /\ Aggregated /\ caught = "none")
        => response = WithoutNewlines(Concat(Fragments(astream)))

C4_Witness ==
    /\ pc = "responded" /\ Aggregated /\ caught = "none"
    /\ Len(astream) = 2
    /\ Fragments(astream) = << <<"a", "b", NL, "c", "d">>, <<"e", "f">> >>
    /\ response = <<"a", "b", "c", "d", "e", "f">>

\* C5: the streaming generator yields the fragments of the chunks consumed before any
\* failure, in emission order, each once and with its newlines; after a failure it
\* yields no further text, and the exception does not leave the generator.
C5_StreamIsFragmentsUntilFailure ==
    Streamed =>
        LET text == NonEmpty(yielded)
            all == NonEmpty(Fragments(astream))
        IN  /\ reply.status = 200
            /\ caught \in {"none", "astream"} => text = all
            /\ caught = "extract" =>
                  /\ IsPrefix(NonEmpty(Fragments(Front(astream))), text)
                  /\ IsPrefix(text, all)
            /\ caught # "none" => (pc = "responded" /\ yielded[Len(yielded)] = <<>>)

C5_Witness ==
    /\ Streamed /\ pc = "responded" /\ caught = "astream"
    /\ Len(astream) = 2
    /\ NonEmpty(yielded) = << <<"a", "b", NL, "c", "d">>, <<"g", NL>>, <<"h">> >>

\* C6: in the non-streaming path an exception raised while consuming the chunk
\* sequence or extracting a fragment, wherever it happens, is caught inside
\* query_response_without_streaming, which returns ""; the request is answered,
\* not failed with a 500.
C6_AggregateFailureGivesEmpty ==
    (Aggregated /\ caught # "none")
        => (pc = "responded" /\ response = <<>> /\ reply.status = 200
            /\ reply.content = <<>>)

C6_Witness ==
    /\ Aggregated /\ caught = "extract" /\ pc = "responded"
    /\ Len(astream) = 2
    /\ collected_responses # <<>>
    /\ response = <<>>

\* C7: in the CLI an end-of-turn chunk (a bare mapping with the key "messages") makes
\* exactly one newline character be written, and a message delta's text is written
\* with no line break appended.
C7_OneNewlinePerEndOfTurn ==
    ex_cli.done =>
        /\ IsEndOfTurn(ex_chunk) => ex_cli.out = <<NL>>
        /\ (IsDelta(ex_chunk) /\ ex_chunk.msg.content.kind = "str")
              => ex_cli.out = ex_chunk.msg.content.text

\* C8: in CLI chat mode the history has the user's new message when the executor is
\* invoked, has gained the assistant's final message exactly once when a turn in
\* which the executor produced chunks has completed, and is empty after clear/cls.
C8_TurnAppendsUserThenAssistantOnce ==
    LET n == Len(chat_history)
    IN  /\ (cli_pc = "chat_stream" /\ cli_astream = <<>>)
              => (n >= 1 /\ chat_history[n] = HumanMessage(user_message))
        /\ (/\ cli_pc = "chat_input" /\ outcome = "completed" /\ cli_astream # <<>>
            /\ \A i \in 1..Len(cli_astream) : IsContractChunk(cli_astream[i]))
              => (/\ n >= 2
                  /\ chat_history[n - 1] = HumanMessage(user_message)
                  /\ chat_history[n].role = "ai")
        /\ outcome = "cleared" => chat_history = <<>>

\* C9 as claimed: an exception raised during a turn is caught and the chat loop
\* prompts again; chat mode is left only by the exit/quit command.
C9_OnlyExitLeavesChat ==
    [][(cli_pc \in InChat /\ cli_pc' \notin InChat)
          => (outcome' = "exit" /\ lower(user_message') \in ExitWords)]_vars

\* C9 as amended: an exception of class Exception raised during a turn is caught in
\* chat mode and the loop prompts again without retrying; chat mode is left by the
\* exit/quit command or by a KeyboardInterrupt, which chat mode does not catch.
C9_ExitOrInterruptLeavesChat ==
    /\ [](outcome = "caught" => cli_pc = "chat_input")
    /\ [][(cli_pc \in InChat /\ cli_pc' \notin InChat)
            => \/ outcome' = "exit" /\ lower(user_message') \in ExitWords
               \/ outcome' = "interrupted"]_vars
    /\ [][(cli_pc \in InChat /\ outcome' = "caught" /\ outcome # "caught")
            => (cli_pc' = "chat_input" /\ chat_history' = chat_history)]_vars

C9_Witness ==
    /\ outcome = "caught" /\ cli_pc = "chat_input"
    /\ Len(cli_astream) = 2
    /\ chat_history # <<>>

\* C10 as claimed: stripping the fence from an already stripped string changes nothing,
\* for every string.
C10_StripTwiceIsStripOnce ==
    \A i \in 3..Len(unwrapped) : unwrapped[i] = unwrapped[i - 1]

\* C10 as amended: stripping again changes nothing unless the stripped string is
\* itself fenced (the input carried a nested fence), and then the inner fence is
\* stripped too, leaving a shorter string.
C10_StripTwiceUnlessNested ==
    \A i \in 3..Len(unwrapped) :
        IF startswith(unwrapped[i - 1], FenceOpen) /\ endswith(unwrapped[i - 1], FenceClose)
        THEN Len(unwrapped[i]) < Len(unwrapped[i - 1])
        ELSE unwrapped[i] = unwrapped[i - 1]

C10_Witness ==
    /\ Len(unwrapped) >= 3
    /\ unwrapped[1] = FenceOpen \o <<NL>> \o <<"{", "}">> \o FenceClose
    /\ unwrapped[2] = <<"{", "}">>
    /\ unwrapped[3] = unwrapped[2]

====
